---- MODULE Spec2Model ----
(***************************************************************************)
(* Model of grove's ITree (src/src/lib.rs): an arena of INode records in   *)
(* a Vec, addressed by NodeId(usize).  NodeId(x) is the 0-based index x;   *)
(* the Vec is a TLA+ sequence, so the node of NodeId(x) is nodes[x + 1].   *)
(* Option<T> is a sequence of length 0 (None) or 1 (Some).                 *)
(***************************************************************************)
EXTENDS Integers, Sequences, FiniteSets, TLC

\* Bounds of the exploration.
MaxLen == 4      \* add_node is explored while the tree holds fewer nodes
MaxId == 4       \* NodeId arguments range over 0..MaxId (some out of range)
MaxValue == 1    \* values of T range over 0..MaxValue

NodeIds == 0..MaxId
Values == 0..MaxValue

VARIABLES
    nodes,      \* ITree.nodes : Vec<INode<T>>
    call,       \* the last operation invoked, its arguments and its outcome
    returned    \* log of the add_node calls that returned, in call order

vars == <<nodes, call, returned>>

\* Option<T>
None == <<>>
Some(x) == <<x>>

\* Vec::len, Vec::is_empty, Vec::get, Vec::push
VecLen(v) == Len(v)
IsEmpty(v) == Len(v) = 0
VecGet(v, x) == IF x < Len(v) THEN Some(v[x + 1]) ELSE None
VecPush(v, e) == Append(v, e)

\* A slip: the parent handed to the constructor is dropped.
INodeNewOrphan(value, parent) ==
    [value |-> value, parent |-> None, children |-> <<>>]

\* INode::new
INodeNew(value, parent) ==
    [value |-> value, parent |-> parent, children |-> <<>>]

\* A slip matching the stale doc comment of INode::insert ("Only works
\* once"): the push happens only while the node has no child yet.
INodeInsertOnce(n, value) ==
    IF n.children = <<>> THEN [n EXCEPT !.children = Append(@, value)] ELSE n

\* A slip: the child is put at the front of the children list.
INodeInsertFront(n, value) ==
    [n EXCEPT !.children = <<value>> \o @]


\* A slip matching the doc comment of INode::insert ("Assign the left side
\* value"): the child is assigned, replacing the list, not pushed.
INodeInsertReplace(n, value) ==
    [n EXCEPT !.children = <<value>>]


\* A slip: insert also stores the NodeId as the node's parent.
INodeInsertSetsParent(n, value) ==
    [n EXCEPT !.children = Append(@, value), !.parent = Some(value)]

\* INode::insert
INodeInsert(n, value) ==
    [n EXCEPT !.children = VecPush(@, value)]

\* INode::value, INode::parent, INode::children
NodeValue(n) == n.value
NodeParent(n) == n.parent
NodeChildren(n) == n.children


\* A slip: new() starts the tree with a default root node.
TreeNewWithRoot == <<[value |-> 0, parent |-> None, children |-> <<>>]>>

\* ITree::new
TreeNew == <<>>

\* ITree::root
TreeRoot(ns) == VecGet(ns, 0)


\* A slip: the NodeId is read as a 1-based position.
TreeGetOneBased(ns, node) ==
    IF node >= 1 /\ node <= Len(ns) THEN Some(ns[node]) ELSE None

\* ITree::get
TreeGet(ns, node) == VecGet(ns, node)

\* Outcome of one add_node call: the tree it leaves, the NodeId it returns
\* (None when the call panics) and whether it panicked.
Outcome(ns, ret, panicked) ==
    [nodes |-> ns, ret |-> ret, panicked |-> panicked]

\* A slip: the new node is pushed before the parent is resolved.
AddNodePushFirst(ns, node, value) ==
    IF IsEmpty(ns) THEN
        Outcome(VecPush(ns, INodeNew(value, None)), Some(0), FALSE)
    ELSE
        LET index == VecLen(ns)
            pushed == VecPush(ns, INodeNew(value, Some(node)))
        IN  IF node >= VecLen(pushed) THEN
                Outcome(pushed, None, TRUE)
            ELSE
                Outcome([pushed EXCEPT ![node + 1] = INodeInsert(@, index)],
                        Some(index), FALSE)

\* A slip: the first insertion keeps the given NodeId as the root's parent.
AddNodeRootKeepsParent(ns, node, value) ==
    IF IsEmpty(ns) THEN
        Outcome(VecPush(ns, INodeNew(value, Some(node))), Some(0), FALSE)
    ELSE
        LET index == VecLen(ns)
        IN  IF node >= VecLen(ns) THEN
                Outcome(ns, None, TRUE)
            ELSE
                Outcome(VecPush([ns EXCEPT ![node + 1] = INodeInsert(@, index)],
                                INodeNew(value, Some(node))),
                        Some(index), FALSE)

\* A slip: the returned NodeId is the length taken after the push.
AddNodeIndexAfterPush(ns, node, value) ==
    IF IsEmpty(ns) THEN
        Outcome(VecPush(ns, INodeNew(value, None)), Some(0), FALSE)
    ELSE
        LET index == VecLen(ns)
        IN  IF node >= VecLen(ns) THEN
                Outcome(ns, None, TRUE)
            ELSE
                LET grown == VecPush([ns EXCEPT ![node + 1] = INodeInsert(@, index)],
                                     INodeNew(value, Some(node)))
                IN  Outcome(grown, Some(VecLen(grown)), FALSE)

\* A slip: the new node is put at the front of the Vec (Vec::insert(0, _)).
AddNodeAtFront(ns, node, value) ==
    IF IsEmpty(ns) THEN
        Outcome(VecPush(ns, INodeNew(value, None)), Some(0), FALSE)
    ELSE
        LET index == VecLen(ns)
        IN  IF node >= VecLen(ns) THEN
                Outcome(ns, None, TRUE)
            ELSE
                Outcome(<<INodeNew(value, Some(node))>>
                            \o [ns EXCEPT ![node + 1] = INodeInsert(@, index)],
                        Some(index), FALSE)

\* A slip: an out-of-range parent is clamped to the last node, not refused.
AddNodeClampParent(ns, node, value) ==
    IF IsEmpty(ns) THEN
        Outcome(VecPush(ns, INodeNew(value, None)), Some(0), FALSE)
    ELSE
        LET index == VecLen(ns)
            x == IF node >= VecLen(ns) THEN VecLen(ns) - 1 ELSE node
        IN  Outcome(VecPush([ns EXCEPT ![x + 1] = INodeInsert(@, index)],
                            INodeNew(value, Some(node))),
                    Some(index), FALSE)

\* A slip: the empty-tree branch is missing, so the first call indexes an
\* empty Vec.
AddNodeNoRootCase(ns, node, value) ==
    LET index == VecLen(ns)
    IN  IF node >= VecLen(ns) THEN
            Outcome(ns, None, TRUE)
        ELSE
            Outcome(VecPush([ns EXCEPT ![node + 1] = INodeInsert(@, index)],
                            INodeNew(value, Some(node))),
                    Some(index), FALSE)

\* A slip: an out-of-range parent is skipped (Vec::get_mut and if let), the
\* node is pushed all the same.
AddNodeSkipBadParent(ns, node, value) ==
    IF IsEmpty(ns) THEN
        Outcome(VecPush(ns, INodeNew(value, None)), Some(0), FALSE)
    ELSE
        LET index == VecLen(ns)
            inserted == IF node >= VecLen(ns) THEN ns
                        ELSE [ns EXCEPT ![node + 1] = INodeInsert(@, index)]
        IN  Outcome(VecPush(inserted, INodeNew(value, Some(node))),
                    Some(index), FALSE)


\* A slip: the push of the new node is missing in the non-empty branch.
AddNodeNoPush(ns, node, value) ==
    IF IsEmpty(ns) THEN
        Outcome(VecPush(ns, INodeNew(value, None)), Some(0), FALSE)
    ELSE
        LET index == VecLen(ns)
        IN  IF node >= VecLen(ns) THEN
                Outcome(ns, None, TRUE)
            ELSE
                Outcome([ns EXCEPT ![node + 1] = INodeInsert(@, index)],
                        Some(index), FALSE)


\* A slip: the new node's parent is the new NodeId, not the one given.
AddNodeParentIsIndex(ns, node, value) ==
    IF IsEmpty(ns) THEN
        Outcome(VecPush(ns, INodeNew(value, None)), Some(0), FALSE)
    ELSE
        LET index == VecLen(ns)
        IN  IF node >= VecLen(ns) THEN
                Outcome(ns, None, TRUE)
            ELSE
                Outcome(VecPush([ns EXCEPT ![node + 1] = INodeInsert(@, index)],
                                INodeNew(value, Some(index))),
                        Some(index), FALSE)

\* A slip: the NodeId returned is the parent's, not the new node's.
AddNodeReturnsParent(ns, node, value) ==
    IF IsEmpty(ns) THEN
        Outcome(VecPush(ns, INodeNew(value, None)), Some(0), FALSE)
    ELSE
        LET index == VecLen(ns)
        IN  IF node >= VecLen(ns) THEN
                Outcome(ns, None, TRUE)
            ELSE
                Outcome(VecPush([ns EXCEPT ![node + 1] = INodeInsert(@, index)],
                                INodeNew(value, Some(node))),
                        Some(node), FALSE)


\* A slip: the parent is checked, but the child is recorded on the root
\* (index_mut(0)).
AddNodeInsertAtRoot(ns, node, value) ==
    IF IsEmpty(ns) THEN
        Outcome(VecPush(ns, INodeNew(value, None)), Some(0), FALSE)
    ELSE
        LET index == VecLen(ns)
        IN  IF node >= VecLen(ns) THEN
                Outcome(ns, None, TRUE)
            ELSE
                Outcome(VecPush([ns EXCEPT ![1] = INodeInsert(@, index)],
                                INodeNew(value, Some(node))),
                        Some(index), FALSE)

\* ITree::add_node.  Vec::index_mut(x) panics when x >= len; nothing has
\* been written at that point, so the panic leaves the Vec as it was.
AddNode(ns, node, value) ==
    IF IsEmpty(ns) THEN
        Outcome(VecPush(ns, INodeNew(value, None)), Some(0), FALSE)
    ELSE
        LET index == VecLen(ns)
            x == node
        IN  IF x >= VecLen(ns) THEN
                Outcome(ns, None, TRUE)
            ELSE
                LET inserted == [ns EXCEPT ![x + 1] = INodeInsert(@, index)]
                IN  Outcome(VecPush(inserted, INodeNew(value, Some(node))),
                            Some(index), FALSE)

\* The record kept of the last operation.  retId is add_node's result,
\* retNode the result of get or root; pre is the Vec the operation started on.
CallRec(op, node, value, retId, retNode, panicked, pre) ==
    [op |-> op, node |-> node, value |-> value, retId |-> retId,
     retNode |-> retNode, panicked |-> panicked, pre |-> pre]

Init ==
    /\ nodes = TreeNew
    /\ call = CallRec("new", 0, 0, None, None, FALSE, <<>>)
    /\ returned = <<>>

\* tree.add_node(NodeId(node), value)
DoAddNode(node, value) ==
    /\ Len(nodes) < MaxLen
    /\ LET out == AddNode(nodes, node, value)
       IN  /\ nodes' = out.nodes
           /\ call' = CallRec("add_node", node, value, out.ret, None,
                              out.panicked, nodes)
           /\ returned' =
                IF out.panicked THEN returned
                ELSE Append(returned,
                            [id |-> out.ret[1], node |-> node, value |-> value,
                             first |-> IsEmpty(nodes), len |-> VecLen(nodes)])

\* tree.get(NodeId(node))
DoGet(node) ==
    /\ call' = CallRec("get", node, 0, None, TreeGet(nodes, node), FALSE, nodes)
    /\ UNCHANGED <<nodes, returned>>

\* tree.root()
DoRoot ==
    /\ call' = CallRec("root", 0, 0, None, TreeRoot(nodes), FALSE, nodes)
    /\ UNCHANGED <<nodes, returned>>

Next ==
    \/ \E node \in NodeIds, value \in Values : DoAddNode(node, value)
    \/ \E node \in NodeIds : DoGet(node)
    \/ DoRoot

Spec == Init /\ [][Next]_vars

(***************************************************************************)
(* Properties                                                              *)
(***************************************************************************)

\* The node of NodeId(x) in the current tree (x in range).
At(x) == nodes[x + 1]
N == Len(nodes)

C2_FirstAddNodeMakesRoot ==
    [][(call'.op = "add_node" /\ IsEmpty(nodes))
        => /\ ~call'.panicked
           /\ call'.retId = Some(0)
           /\ nodes' = <<[value |-> call'.value, parent |-> None,
                          children |-> <<>>]>>]_vars

C2_Witness ==
    /\ call.op = "add_node"
    /\ IsEmpty(call.pre)
    /\ call.node = MaxId
    /\ call.retId = Some(0)
    /\ N = 1

\* C3: every NodeId returned by an add_node call with value v still yields
\* a node of value v (and of the parent given at that call) in every later
\* state.
C3_IdentityStable ==
    \A k \in DOMAIN returned :
        LET g == TreeGet(nodes, returned[k].id)
        IN  /\ g # None
            /\ NodeValue(g[1]) = returned[k].value
            /\ NodeParent(g[1]) =
                 IF returned[k].first THEN None ELSE Some(returned[k].node)

C3_Witness ==
    /\ Len(returned) >= 3
    /\ returned[1].value # returned[2].value
    /\ call.op = "add_node"
    /\ ~call.panicked
    /\ NodeValue(At(returned[1].id)) = returned[1].value

\* The identifiers returned, in call order, by the add_node calls made on a
\* non-empty tree with parent_id = p.
ReturnedFor(p) ==
    LET s == SelectSeq(returned, LAMBDA r : ~r.first /\ r.node = p)
    IN  [i \in 1..Len(s) |-> s[i].id]

C5_BadParentPanicsUnchanged ==
    [][(call'.op = "add_node" /\ ~IsEmpty(nodes) /\ call'.node >= Len(nodes))
        => /\ call'.panicked
           /\ call'.retId = None
           /\ nodes' = nodes
           /\ returned' = returned]_vars

C5_Witness ==
    /\ call.op = "add_node"
    /\ call.panicked
    /\ Len(call.pre) >= 2
    /\ call.node > Len(call.pre)
    /\ nodes = call.pre

\* The places <<p, i>> at which identifier j stands in a children list.
Occurrences(j) ==
    UNION {{<<p, i>> : i \in {i \in DOMAIN NodeChildren(At(p)) :
                                   NodeChildren(At(p))[i] = j}} :
           p \in 0..(N - 1)}

C7_RootRules ==
    /\ ~IsEmpty(nodes) =>
         /\ TreeGet(nodes, 0) # None
         /\ NodeParent(TreeGet(nodes, 0)[1]) = None
         /\ \A j \in 1..(N - 1) : NodeParent(At(j)) # None
    /\ \A k \in DOMAIN returned :
         LET g == TreeGet(nodes, returned[k].id)
         IN  (g # None /\ NodeParent(g[1]) = None) => returned[k].first

C7_Witness ==
    /\ N >= 3
    /\ NodeParent(At(0)) = None
    /\ NodeParent(At(2)) = Some(1)

\* C8: every non-root node j has a parent of index < j, and that index was
\* in range when j was inserted.
C8_ParentMonotone ==
    \A j \in 1..(N - 1) :
        /\ NodeParent(At(j)) # None
        /\ NodeParent(At(j))[1] < j
        /\ \E k \in DOMAIN returned :
             /\ returned[k].id = j
             /\ returned[k].node = NodeParent(At(j))[1]
             /\ returned[k].node < returned[k].len

C8_Witness ==
    /\ N >= 4
    /\ NodeParent(At(3)) = Some(2)
    /\ NodeParent(At(2)) = Some(0)

\* C9: no node is its own parent or its own child; add_node(NodeId(n), v)
\* on a tree of length n >= 1 resolves the parent before the push, so it
\* panics and adds nothing.
C9_NoSelfParent ==
    /\ \A j \in 0..(N - 1) :
         /\ NodeParent(At(j)) # Some(j)
         /\ \A i \in DOMAIN NodeChildren(At(j)) : NodeChildren(At(j))[i] # j
    /\ (call.op = "add_node" /\ ~IsEmpty(call.pre)
            /\ call.node = Len(call.pre))
         => (call.panicked /\ nodes = call.pre)

C9_Witness ==
    /\ call.op = "add_node"
    /\ ~IsEmpty(call.pre)
    /\ call.node = Len(call.pre)
    /\ call.panicked

\* C10: get of every NodeId returned by add_node is present right after
\* the call and in every later state.
C10_ReturnedIdPresent ==
    \A k \in DOMAIN returned : TreeGet(nodes, returned[k].id) # None

C10_Witness ==
    /\ Len(returned) >= 3
    /\ call.op = "get"
    /\ call.node = returned[1].id
    /\ call.retNode # None

\* s is a prefix of t.
IsPrefix(s, t) == Len(s) <= Len(t) /\ SubSeq(t, 1, Len(s)) = s

\* C11: across every add_node, each node that already exists keeps its
\* parent, and its old children list is a prefix of its new one.
C11_AppendOnlyNodes ==
    [][call'.op = "add_node"
        => \A j \in 0..(Len(nodes) - 1) :
             /\ j < Len(nodes')
             /\ NodeParent(nodes'[j + 1]) = NodeParent(nodes[j + 1])
             /\ IsPrefix(NodeChildren(nodes[j + 1]),
                         NodeChildren(nodes'[j + 1]))]_vars

C11_Witness ==
    /\ call.op = "add_node"
    /\ ~call.panicked
    /\ Len(call.pre) >= 3
    /\ call.node >= 1
    /\ call.node < Len(call.pre)
    /\ Len(NodeChildren(call.pre[call.node + 1])) >= 1
    /\ Len(NodeChildren(At(call.node))) >= 2

\* C12: the tree starts empty, becomes non-empty exactly on the first
\* add_node that returns, never becomes empty again; its length never
\* decreases and grows by exactly one on each add_node that returns and on
\* no other step.
C12_TreeStateMachine ==
    [][/\ Len(nodes') >= Len(nodes)
       /\ (~IsEmpty(nodes) => ~IsEmpty(nodes'))
       /\ (returned = <<>> => IsEmpty(nodes))
       /\ (call'.op = "add_node" /\ ~call'.panicked)
            => Len(nodes') = Len(nodes) + 1
       /\ Len(nodes') # Len(nodes)
            => /\ call'.op = "add_node"
               /\ ~call'.panicked
               /\ Len(nodes') = Len(nodes) + 1
       /\ (IsEmpty(nodes) /\ ~IsEmpty(nodes'))
            => (call'.op = "add_node" /\ returned = <<>>
                  /\ Len(returned') = 1)]_vars

C12_Witness ==
    /\ call.op = "add_node"
    /\ ~call.panicked
    /\ N = Len(call.pre) + 1
    /\ N >= 3
    /\ Len(returned) = N

\* C13: a tree produced by new(), before any add_node, holds no node:
\* root() is absent and get(id) is absent for every NodeId, 0 included.
C13_NewTreeIsEmpty ==
    returned = <<>> =>
        /\ IsEmpty(nodes)
        /\ TreeRoot(nodes) = None
        /\ \A id \in NodeIds : TreeGet(nodes, id) = None
        /\ call.op \in {"get", "root"} => call.retNode = None

C13_Witness ==
    /\ returned = <<>>
    /\ call.op = "get"
    /\ call.node = 0
    /\ call.retNode = None

\* C14: get(id) is present iff id < N and is then the node stored at that
\* index; root() is present iff N >= 1 and is what get(NodeId(0)) gives;
\* neither changes the tree.
C14_Lookup ==
    [][/\ call'.op = "get" =>
            /\ nodes' = nodes
            /\ returned' = returned
            /\ (call'.retNode # None) <=> (call'.node < Len(nodes))
            /\ call'.node < Len(nodes)
                 => call'.retNode = <<nodes[call'.node + 1]>>
       /\ call'.op = "root" =>
            /\ nodes' = nodes
            /\ returned' = returned
            /\ (call'.retNode # None) <=> (Len(nodes) >= 1)
            /\ call'.retNode = TreeGet(nodes, 0)
            /\ Len(nodes) >= 1 => call'.retNode = <<nodes[1]>>]_vars

C14_Witness ==
    /\ call.op = "get"
    /\ N >= 3
    /\ call.node = 2
    /\ call.retNode = <<At(2)>>
    /\ At(2) # At(0)
    /\ At(2) # At(1)

\* Following parent identifiers from j reaches index 0 within k steps.
RECURSIVE ReachesRoot(_, _)
ReachesRoot(j, k) ==
    IF j = 0 THEN TRUE
    ELSE IF k = 0 \/ j >= N THEN FALSE
    ELSE IF NodeParent(At(j)) = None THEN FALSE
    ELSE ReachesRoot(NodeParent(At(j))[1], k - 1)

\* C15: the parent relation has no cycle and every node reaches the root
\* (index 0, which has no parent) by parent identifiers in at most N - 1
\* steps: the nodes form one tree.
C15_SingleTree ==
    /\ ~IsEmpty(nodes) => NodeParent(At(0)) = None
    /\ \A j \in 0..(N - 1) : ReachesRoot(j, N - 1)

C15_Witness ==
    /\ N >= 4
    /\ NodeParent(At(1)) = Some(0)
    /\ NodeParent(At(2)) = Some(1)
    /\ NodeParent(At(3)) = Some(2)

\* C16: the k-th add_node that returns gives NodeId(k - 1), the length of
\* the tree before the call; the identifiers returned are pairwise distinct
\* and after k such calls the tree holds exactly the indices 0..k-1.
C16_DenseIds ==
    /\ \A k \in DOMAIN returned :
         /\ returned[k].id = k - 1
         /\ returned[k].id = returned[k].len
    /\ \A k, m \in DOMAIN returned :
         k # m => returned[k].id # returned[m].id
    /\ N = Len(returned)

C16_Witness ==
    /\ Len(returned) >= 4
    /\ returned[4].id = 3
    /\ returned[4].node = 1
    /\ N = Len(returned)

\* Identifier j stands in the children list of node p.
IsChildOf(j, p) ==
    \E i \in DOMAIN NodeChildren(At(p)) : NodeChildren(At(p))[i] = j

C19_ReferentialIntegrity ==
    \A j \in 0..(N - 1) :
        /\ NodeParent(At(j)) # None =>
             /\ NodeParent(At(j))[1] < N
             /\ TreeGet(nodes, NodeParent(At(j))[1]) # None
        /\ \A i \in DOMAIN NodeChildren(At(j)) :
             /\ NodeChildren(At(j))[i] < N
             /\ TreeGet(nodes, NodeChildren(At(j))[i]) # None
             /\ NodeChildren(At(j))[i] > j
             /\ i > 1 => NodeChildren(At(j))[i - 1] < NodeChildren(At(j))[i]

C19_Witness ==
    /\ N >= 4
    /\ NodeChildren(At(1)) = <<2, 3>>
    /\ NodeParent(At(2)) = Some(1)

====
